---------------------------- MODULE Spec2Model ----------------------------
(***************************************************************************)
(* Model of the ApRES survey console (src/src/apressurvey/__main__.py):    *)
(* the radar session, the burst-configuration editor, the antenna masks,   *)
(* the trial and single (persisted) burst workflows and the file catalog.  *)
(*                                                                         *)
(* The instrument and the apreshttp library are the environment: every     *)
(* request may succeed or raise, and what the instrument holds at connect  *)
(* time is whatever its config.ini says (the console itself can upload an  *)
(* arbitrary config.ini, ConfigFrame.uploadConfig).                        *)
(*                                                                         *)
(* Optional values (Python None) are sequences of length 0 or 1.           *)
(* RF attenuations and AF gains are modelled by their numeric value in dB. *)
(***************************************************************************)
EXTENDS Integers, Sequences, FiniteSets, TLC

VARIABLES
    api,            \* application.api: <<>> (None) or <<"api">>
    config,         \* BurstConfigFrame.config: <<>> (None) or <<cfg>>
    averageVar,     \* averageVariableFrame.values[0]
    subburstVar,    \* subburstVariableFrame.values[0]
    attenuatorsVar, \* attenuatorsVariableFrame.values[0]
    rfAttnVars,     \* rfAttnVariableFrame.values, 4 slots
    afGainVars,     \* afGainVariableFrame.values, 4 slots
    rfVisible,      \* number of RF entries on the grid
    afVisible,      \* number of AF entries on the grid
    txMask,         \* txAntennaFrame.checkbox_values, 8 flags
    rxMask,         \* rxAntennaFrame.checkbox_values, 8 flags
    statusLabel,    \* statusFrame.statusLabel
    bg,             \* background colour of the system frame
    status,         \* statusFrame.status.batteryVoltage
    timers,         \* pending after(5000, updateStatus) timers
    dev,            \* the instrument: its radar configuration
    lastSet,        \* arguments of the latest radar.config.set: <<>> or <<args>>
    trialButton,    \* ApRESTrialBurstFrame.button['state']
    singleButton,   \* ApRESSingleBurstFrame.button['state']
    uiPc,           \* position of the interface thread inside doTrialBurst
    trial,          \* the trial-burst workflow of the latest accepted trigger
    burst,          \* the single-burst workflow of the latest accepted trigger
    fileView,       \* rows of ApRESSingleBurstFrame.fileView (file names)
    batteryLog,     \* statusFrame.batteryLog, oldest sample first
    pushed,         \* history: every sample batteryLogUpdate has stored, in order
    ev              \* requests and operator reports of the latest handler, in order

cfgVars == <<config, averageVar, subburstVar, attenuatorsVar, rfAttnVars,
             afGainVars, rfVisible, afVisible, txMask, rxMask>>
sysVars == <<api, statusLabel, bg, status, timers>>
acqVars == <<trialButton, singleButton, uiPc, trial, burst, fileView>>
logVars == <<batteryLog, pushed>>
vars == <<cfgVars, sysVars, acqVars, logVars, dev, lastSet, ev>>

---------------------------------------------------------------------------
(* Program constants *)

NSlots == 4             \* ConfigVariableFrame N of the RF and AF frames
NAntennas == 8          \* AntennaCheckbuttonFrame N
AttenuatorsFrom == 1    \* spinbox from_
AttenuatorsTo == 4      \* spinbox to
CountDefault == 1       \* varDefault of the averages, sub-bursts, attenuators
RfDefault == 30         \* varDefault of the RF attenuation slots
AfDefault == -14        \* varDefault of the AF gain slots
BATTERY_LOG_SIZE == 256 \* StatusFrame.BATTERY_LOG_SIZE

(* Bounds of the model *)

MaxTimers == 2          \* pending status timers
MaxCatalog == 2         \* rows of the file view
MaxPushes == 258        \* runs of batteryLogUpdate, the one of the constructor included

None == <<>>
Some(x) == <<x>>
IsNone(o) == o = <<>>
The(o) == o[1]

Min(S) == CHOOSE x \in S : \A y \in S : x <= y

DefaultMask == <<1, 0, 0, 0, 0, 0, 0, 0>>
ZeroMask == <<0, 0, 0, 0, 0, 0, 0, 0>>

RECURSIVE SumSeq(_)
SumSeq(s) == IF s = <<>> THEN 0 ELSE Head(s) + SumSeq(Tail(s))

---------------------------------------------------------------------------
(* BurstConfigFrame.AntennaCheckbuttonFrame *)

\* setValues: a list of another length raises ValueError and changes nothing
SetValuesRaises(values) == Len(values) # NAntennas

SetValues(mask, values) ==
    IF SetValuesRaises(values) THEN mask
    ELSE [k \in 1..NAntennas |-> values[k]]

GetValues(mask) == [k \in 1..NAntennas |-> mask[k]]

\* the Checkbutton flips its variable (index i counted from 0), then runs its command
Flip(mask, i) == [mask EXCEPT ![i + 1] = 1 - mask[i + 1]]

\* faulty variant: the flag set is the one after the first
CheckAtLeastOne_Second(mask) ==
    IF SumSeq(mask) = 0 THEN [mask EXCEPT ![2] = 1] ELSE mask

CheckAtLeastOne(mask) ==
    IF SumSeq(mask) = 0 THEN [mask EXCEPT ![1] = 1] ELSE mask

Toggle(mask, i) == CheckAtLeastOne(Flip(mask, i))

---------------------------------------------------------------------------
(* BurstConfigFrame.ConfigVariableFrame *)

\* updateVisible: the number of entries left on the grid
UpdateVisible(frameN, n) ==
    LET a == IF n > frameN THEN frameN ELSE n
    IN  IF a < 1 THEN 1 ELSE a

\* range(n) of Python as the 1-based indices of the list it builds
PyRange(n) == 1..n

\* [getNthValue(n) for n in range(count)]: raises IndexError past the last slot
GetValuesRaises(count) == count > NSlots

\* faulty variant: every slot is sent, whatever the count
GetFirstValues_All(values, count) == [k \in 1..NSlots |-> values[k]]

GetFirstValues(values, count) == [k \in PyRange(count) |-> values[k]]

---------------------------------------------------------------------------
(* The state of the configuration editor as one record, so that handlers   *)
(* that call one another compose.                                          *)

Gui == [config |-> config, averageVar |-> averageVar, subburstVar |-> subburstVar,
        attenuatorsVar |-> attenuatorsVar, rfAttnVars |-> rfAttnVars,
        afGainVars |-> afGainVars, rfVisible |-> rfVisible, afVisible |-> afVisible,
        txMask |-> txMask, rxMask |-> rxMask, statusLabel |-> statusLabel, bg |-> bg]

SetGui(g) ==
    /\ config' = g.config
    /\ averageVar' = g.averageVar
    /\ subburstVar' = g.subburstVar
    /\ attenuatorsVar' = g.attenuatorsVar
    /\ rfAttnVars' = g.rfAttnVars
    /\ afGainVars' = g.afGainVars
    /\ rfVisible' = g.rfVisible
    /\ afVisible' = g.afVisible
    /\ txMask' = g.txMask
    /\ rxMask' = g.rxMask
    /\ statusLabel' = g.statusLabel
    /\ bg' = g.bg

\* BurstConfigFrame.updateAttenuators: the loop over range(config.nAttenuators)
\* sets the RF slot and then the AF slot of k, and raises IndexError at the first
\* k one of the three lists does not have.
RfCopied(c) == Min({c.nAttenuators, NSlots, Len(c.rfAttn), Len(c.afGain) + 1})
AfCopied(c) == Min({c.nAttenuators, NSlots, Len(c.rfAttn), Len(c.afGain)})
UpdateAttenuatorsRaises(g) ==
    /\ ~IsNone(g.config)
    /\ AfCopied(The(g.config)) < The(g.config).nAttenuators

\* faulty variant: the entries are shown or hidden, the slots are not filled
UpdateAttenuators_VisibleOnly(g) ==
    [g EXCEPT !.rfVisible = UpdateVisible(NSlots, g.attenuatorsVar),
              !.afVisible = UpdateVisible(NSlots, g.attenuatorsVar)]

UpdateAttenuators(g) ==
    LET shown == [g EXCEPT !.rfVisible = UpdateVisible(NSlots, g.attenuatorsVar),
                           !.afVisible = UpdateVisible(NSlots, g.attenuatorsVar)]
    IN  IF IsNone(g.config) THEN shown
        ELSE LET c == The(g.config)
             IN  [shown EXCEPT
                    !.rfAttnVars = [k \in 1..NSlots |->
                        IF k <= RfCopied(c) THEN c.rfAttn[k] ELSE g.rfAttnVars[k]],
                    !.afGainVars = [k \in 1..NSlots |->
                        IF k <= AfCopied(c) THEN c.afGain[k] ELSE g.afGainVars[k]]]


---------------------------------------------------------------------------
(* BurstConfigFrame.refreshConfig and updateConfig, as functions of the     *)
(* editor state g, the session a, the instrument's configuration d and the  *)
(* outcome of each request. Each yields the new editor state, the          *)
(* instrument's new configuration and the steps taken.                     *)

ErrRetrieving == "Error retrieving burst configuration from radar."
ErrUpdating == "Error updating burst configuration from radar."
ErrConnecting == "Error connecting to radar."

RefreshFailed(g, steps) ==
    [g |-> [g EXCEPT !.statusLabel = ErrRetrieving],
     steps |-> steps \o <<"showerror">>]

RefreshConfig(g, a, d, getOk) ==
    IF IsNone(a)
    THEN [g |-> [g EXCEPT !.bg = "red"], steps |-> <<"showwarning:Not connected.">>]
    ELSE IF ~getOk THEN RefreshFailed(g, <<"radar.config.get">>)
    ELSE LET g1 == [g EXCEPT !.config = Some(d),
                             !.averageVar = d.nAverages,
                             !.subburstVar = d.nSubBursts,
                             !.attenuatorsVar = d.nAttenuators]
             g2 == [g1 EXCEPT !.txMask = SetValues(g1.txMask, d.txAntenna)]
             g3 == [g2 EXCEPT !.rxMask = SetValues(g2.rxMask, d.rxAntenna)]
         IN  IF SetValuesRaises(d.txAntenna) THEN RefreshFailed(g1, <<"radar.config.get">>)
             ELSE IF SetValuesRaises(d.rxAntenna) THEN RefreshFailed(g2, <<"radar.config.get">>)
             ELSE IF UpdateAttenuatorsRaises(g3)
                  THEN RefreshFailed(UpdateAttenuators(g3), <<"radar.config.get">>)
             ELSE [g |-> UpdateAttenuators(g3), steps |-> <<"radar.config.get">>]

\* faulty variant: the count and the lists follow the fetched configuration
Candidate_CountFromConfig(g) ==
    LET n == IF IsNone(g.config) THEN g.attenuatorsVar ELSE The(g.config).nAttenuators
    IN  [nAtts |-> n,
         nAverages |-> g.averageVar,
         nBursts |-> g.subburstVar,
         rfAttnSet |-> GetFirstValues(g.rfAttnVars, n),
         afGainSet |-> GetFirstValues(g.afGainVars, n),
         txAnt |-> GetValues(g.txMask),
         rxAnt |-> GetValues(g.rxMask)]

\* the keyword arguments updateConfig passes to radar.config.set
Candidate(g) ==
    [nAtts |-> g.attenuatorsVar,
     nAverages |-> g.averageVar,
     nBursts |-> g.subburstVar,
     rfAttnSet |-> GetFirstValues(g.rfAttnVars, g.attenuatorsVar),
     afGainSet |-> GetFirstValues(g.afGainVars, g.attenuatorsVar),
     txAnt |-> GetValues(g.txMask),
     rxAnt |-> GetValues(g.rxMask)]

\* the configuration the instrument holds, and returns, once it took a candidate
Stored(c) ==
    [nAverages |-> c.nAverages, nSubBursts |-> c.nBursts, nAttenuators |-> c.nAtts,
     rfAttn |-> c.rfAttnSet, afGain |-> c.afGainSet,
     txAntenna |-> c.txAnt, rxAntenna |-> c.rxAnt]

UpdateConfig(g, a, d, ls, setOk, getOk) ==
    IF IsNone(a)
    THEN [g |-> g, dev |-> d, lastSet |-> ls, steps |-> <<"showwarning:Not connected.">>]
    ELSE
      LET raisedLocally == GetValuesRaises(g.attenuatorsVar)
          sent == ~raisedLocally
          took == sent /\ setOk
          d1 == IF took THEN Stored(Candidate(g)) ELSE d
          g1 == IF took THEN [g EXCEPT !.config = Some(d1)]
                ELSE [g EXCEPT !.statusLabel = ErrUpdating]
          s1 == (IF sent THEN <<"radar.config.set">> ELSE <<>>)
                \o (IF took THEN <<>> ELSE <<"showerror">>)
          r == RefreshConfig(g1, a, d1, getOk)
      IN  [g |-> r.g, dev |-> d1,
           lastSet |-> IF sent THEN Some(Candidate(g)) ELSE ls,
           steps |-> s1 \o r.steps]

---------------------------------------------------------------------------
(* ApRESSystemFrame.updateStatus and connectToRadar. A system state s is    *)
(* [api, status, timers]; the labels and the colour live in the editor     *)
(* record g.                                                               *)

\* StatusFrame.update redraws the tree and sets the label to "Not connected."
StatusFrameUpdate(g) == [g EXCEPT !.statusLabel = "Not connected."]

\* faulty variant: a poll that fails drops the session
UpdateStatus_RollsBack(g, s, statusOk, volts) ==
    IF IsNone(s.api)
    THEN [g |-> [g EXCEPT !.statusLabel = "Cannot connect to radar."],
          s |-> s, steps |-> <<>>]
    ELSE IF statusOk
    THEN [g |-> [StatusFrameUpdate(g) EXCEPT !.statusLabel = "Updated."],
          s |-> [s EXCEPT !.status = volts, !.timers = @ + 1],
          steps |-> <<"housekeeping.status">>]
    ELSE [g |-> [g EXCEPT !.statusLabel = ErrConnecting, !.bg = "red"],
          s |-> [s EXCEPT !.api = None],
          steps |-> <<"housekeeping.status", "showerror">>]

UpdateStatus(g, s, statusOk, volts) ==
    IF IsNone(s.api)
    THEN [g |-> [g EXCEPT !.statusLabel = "Cannot connect to radar."],
          s |-> s, steps |-> <<>>]
    ELSE IF statusOk
    THEN [g |-> [StatusFrameUpdate(g) EXCEPT !.statusLabel = "Updated."],
          s |-> [s EXCEPT !.status = volts, !.timers = @ + 1],
          steps |-> <<"housekeeping.status">>]
    ELSE [g |-> [g EXCEPT !.statusLabel = ErrConnecting, !.bg = "red"],
          s |-> s, steps |-> <<"housekeeping.status", "showerror">>]

\* StatusFrame.batteryLog: np.zeros(BATTERY_LOG_SIZE) at construction
Zeros(n) == [k \in 1..n |-> 0]

\* faulty variant: the sample is appended and nothing is evicted
Roll_Grow(log, v) == Append(log, v)

\* batteryLogUpdate: np.roll(batteryLog, -1), then batteryLog[-1] = v
Roll(log, v) == [k \in 1..Len(log) |-> IF k < Len(log) THEN log[k + 1] ELSE v]

Sys == [api |-> api, status |-> status, timers |-> timers]

SetSys(s) ==
    /\ api' = s.api
    /\ status' = s.status
    /\ timers' = s.timers

ConnectToRadar(g, s, d, apiOk, statusOk, volts, getOk) ==
    IF ~apiOk
    THEN [g |-> [g EXCEPT !.bg = "red", !.statusLabel = ErrConnecting],
          s |-> [s EXCEPT !.api = None],
          steps |-> <<"showerror">>]
    ELSE LET s1 == [s EXCEPT !.api = Some("api")]
             u == UpdateStatus(g, s1, statusOk, volts)
             r == RefreshConfig(u.g, u.s.api, d, getOk)
         IN  [g |-> [r.g EXCEPT !.bg = "green"], s |-> u.s,
              steps |-> u.steps \o r.steps]

---------------------------------------------------------------------------
(* The state after ApRESSurveyApplication.__init__, the instrument holding  *)
(* configuration d.                                                         *)

InitWith(d) ==
    /\ api = None
    /\ config = None
    /\ averageVar = CountDefault
    /\ subburstVar = CountDefault
    /\ attenuatorsVar = CountDefault
    /\ rfAttnVars = [k \in 1..NSlots |-> RfDefault]
    /\ afGainVars = [k \in 1..NSlots |-> AfDefault]
    /\ rfVisible = UpdateVisible(NSlots, CountDefault)
    /\ afVisible = UpdateVisible(NSlots, CountDefault)
    /\ txMask = SetValues(ZeroMask, DefaultMask)
    /\ rxMask = SetValues(ZeroMask, DefaultMask)
    /\ statusLabel = "Not connected."
    /\ bg = "default"
    /\ status = 0
    /\ timers = 0
    /\ dev = d
    /\ lastSet = None
    /\ trialButton = "normal"
    /\ singleButton = "normal"
    /\ uiPc = "idle"
    /\ trial = "Idle"
    /\ burst = "Idle"
    /\ fileView = <<>>
    /\ batteryLog = Roll(Zeros(BATTERY_LOG_SIZE), 0)
    /\ pushed = <<0>>
    /\ ev = <<>>

\* the interface thread runs one handler at a time
UiIdle == uiPc = "idle"

---------------------------------------------------------------------------
(* Handlers of the system frame and the configuration editor *)

\* the Connect button
connectToRadar(apiOk, statusOk, volts, getOk) ==
    /\ UiIdle
    /\ (apiOk /\ statusOk) => timers < MaxTimers
    /\ LET r == ConnectToRadar(Gui, Sys, dev, apiOk, statusOk, volts, getOk)
       IN  /\ SetGui(r.g)
           /\ SetSys(r.s)
           /\ ev' = r.steps
    /\ UNCHANGED <<logVars, acqVars, dev, lastSet>>

\* a pending after(5000, updateStatus) timer fires
updateStatus(statusOk, volts) ==
    /\ UiIdle
    /\ timers > 0
    /\ LET r == UpdateStatus(Gui, [Sys EXCEPT !.timers = @ - 1], statusOk, volts)
       IN  /\ SetGui(r.g)
           /\ SetSys(r.s)
           /\ ev' = r.steps
    /\ UNCHANGED <<logVars, acqVars, dev, lastSet>>

\* the after(BATTERY_LOG_INTERVAL, batteryLogUpdate) timer fires; it is always
\* pending, StatusFrame.__init__ having run batteryLogUpdate once
batteryLogUpdate ==
    /\ UiIdle
    /\ Len(pushed) < MaxPushes
    /\ batteryLog' = Roll(batteryLog, status)
    /\ pushed' = Append(pushed, status)
    /\ ev' = <<"batteryFigureCanvas.draw">>
    /\ UNCHANGED <<cfgVars, sysVars, acqVars, dev, lastSet>>

\* the Refresh button
refreshConfig(getOk) ==
    /\ UiIdle
    /\ LET r == RefreshConfig(Gui, api, dev, getOk)
       IN  /\ SetGui(r.g)
           /\ ev' = r.steps
    /\ UNCHANGED <<logVars, api, status, timers, acqVars, dev, lastSet>>

\* the Update button
updateConfig(setOk, getOk) ==
    /\ UiIdle
    /\ LET r == UpdateConfig(Gui, api, dev, lastSet, setOk, getOk)
       IN  /\ SetGui(r.g)
           /\ dev' = r.dev
           /\ lastSet' = r.lastSet
           /\ ev' = r.steps
    /\ UNCHANGED <<logVars, api, status, timers, acqVars>>

\* the arrows of the "# Attenuators" spinbox (from_=1, to=4, wrap): the new
\* value, then the spinbox command updateAttenuators
SpinUp(v) ==
    IF v >= AttenuatorsTo \/ v < AttenuatorsFrom THEN AttenuatorsFrom ELSE v + 1
SpinDown(v) ==
    IF v <= AttenuatorsFrom \/ v > AttenuatorsTo THEN AttenuatorsTo ELSE v - 1

updateAttenuators(up) ==
    /\ UiIdle
    /\ LET v == IF up THEN SpinUp(attenuatorsVar) ELSE SpinDown(attenuatorsVar)
       IN  SetGui(UpdateAttenuators([Gui EXCEPT !.attenuatorsVar = v]))
    /\ ev' = <<>>
    /\ UNCHANGED <<logVars, api, status, timers, acqVars, dev, lastSet>>

\* the operator types into an entry: the variable changes, no command runs
TypeAttenuators(v) ==
    /\ UiIdle
    /\ attenuatorsVar' = v
    /\ ev' = <<>>
    /\ UNCHANGED <<logVars, config, averageVar, subburstVar, rfAttnVars, afGainVars, rfVisible,
                   afVisible, txMask, rxMask, sysVars, acqVars, dev, lastSet>>

TypeAverages(v) ==
    /\ UiIdle
    /\ averageVar' = v
    /\ ev' = <<>>
    /\ UNCHANGED <<logVars, config, subburstVar, attenuatorsVar, rfAttnVars, afGainVars, rfVisible,
                   afVisible, txMask, rxMask, sysVars, acqVars, dev, lastSet>>

TypeSubbursts(v) ==
    /\ UiIdle
    /\ subburstVar' = v
    /\ ev' = <<>>
    /\ UNCHANGED <<logVars, config, averageVar, attenuatorsVar, rfAttnVars, afGainVars, rfVisible,
                   afVisible, txMask, rxMask, sysVars, acqVars, dev, lastSet>>

\* slot n counted from 0, as setNthValue counts
TypeRfAttn(n, v) ==
    /\ UiIdle
    /\ rfAttnVars' = [rfAttnVars EXCEPT ![n + 1] = v]
    /\ ev' = <<>>
    /\ UNCHANGED <<logVars, config, averageVar, subburstVar, attenuatorsVar, afGainVars, rfVisible,
                   afVisible, txMask, rxMask, sysVars, acqVars, dev, lastSet>>

TypeAfGain(n, v) ==
    /\ UiIdle
    /\ afGainVars' = [afGainVars EXCEPT ![n + 1] = v]
    /\ ev' = <<>>
    /\ UNCHANGED <<logVars, config, averageVar, subburstVar, attenuatorsVar, rfAttnVars, rfVisible,
                   afVisible, txMask, rxMask, sysVars, acqVars, dev, lastSet>>

\* a click on checkbox i of the TX or RX antenna frame; the steps name the
\* frame and the checkbox, and say whether checkAtLeastOne had to set flag 0
IndexName == <<"0", "1", "2", "3", "4", "5", "6", "7">>
ToggleSteps(frame, mask, i) ==
    <<frame, IndexName[i + 1]>>
    \o (IF SumSeq(Flip(mask, i)) = 0 THEN <<"set0">> ELSE <<>>)

ToggleTx(i) ==
    /\ UiIdle
    /\ txMask' = Toggle(txMask, i)
    /\ ev' = ToggleSteps("tx", txMask, i)
    /\ UNCHANGED <<logVars, config, averageVar, subburstVar, attenuatorsVar, rfAttnVars, afGainVars,
                   rfVisible, afVisible, rxMask, sysVars, acqVars, dev, lastSet>>

ToggleRx(i) ==
    /\ UiIdle
    /\ rxMask' = Toggle(rxMask, i)
    /\ ev' = ToggleSteps("rx", rxMask, i)
    /\ UNCHANGED <<logVars, config, averageVar, subburstVar, attenuatorsVar, rfAttnVars, afGainVars,
                   rfVisible, afVisible, txMask, sysVars, acqVars, dev, lastSet>>

---------------------------------------------------------------------------
(* ConfigFrame: Download..., Upload... and Reset. named says whether the     *)
(* operator gave a file name in the dialog, ok whether the request went      *)
(* through; answer is what system.reset returned.                            *)

NotConnectedLabel == "setStatusLabel:Error connecting to radar."

\* faulty variant: nothing is shown when there is no session
ConfigFrameNotConnected_Silent(g) == [g |-> g, steps |-> <<>>]

\* the else branch of the three handlers: getAPI() is None
ConfigFrameNotConnected(g) ==
    [g |-> [g EXCEPT !.statusLabel = ErrConnecting, !.bg = "red"],
     steps |-> <<NotConnectedLabel>>]

DownloadConfig(g, a, named, ok) ==
    IF IsNone(a) THEN ConfigFrameNotConnected(g)
    ELSE IF ~named
    THEN [g |-> g, steps |-> <<"asksaveasfilename", "showwarning:Empty Filename">>]
    ELSE IF ok
    THEN [g |-> [g EXCEPT !.statusLabel = "Successfully downloaded config."],
          steps |-> <<"asksaveasfilename", "config.download">>]
    ELSE [g |-> g, steps |-> <<"asksaveasfilename", "config.download", "showerror">>]

UploadConfig(g, a, named, ok) ==
    IF IsNone(a) THEN ConfigFrameNotConnected(g)
    ELSE IF ~named
    THEN [g |-> g, steps |-> <<"askopenfilename", "showwarning:Empty Filename">>]
    ELSE IF ok
    THEN [g |-> [g EXCEPT !.statusLabel = "Successfully upload config to radar."],
          steps |-> <<"askopenfilename", "config.upload", "showinfo">>]
    ELSE [g |-> g, steps |-> <<"askopenfilename", "config.upload", "showerror">>]

\* answer: "message" (a reset message), "none" (None returned), "error" (raised)
Reset(g, a, answer) ==
    IF IsNone(a) THEN ConfigFrameNotConnected(g)
    ELSE IF answer = "message"
    THEN [g |-> [g EXCEPT !.statusLabel = "Attempting reset."],
          steps |-> <<"system.reset">>]
    ELSE IF answer = "none"
    THEN [g |-> g, steps |-> <<"system.reset">>]
    ELSE [g |-> g, steps |-> <<"system.reset", "showerror">>]

downloadConfig(named, ok) ==
    /\ UiIdle
    /\ LET r == DownloadConfig(Gui, api, named, ok)
       IN  /\ SetGui(r.g)
           /\ ev' = r.steps
    /\ UNCHANGED <<logVars, api, status, timers, acqVars, dev, lastSet>>

uploadConfig(named, ok) ==
    /\ UiIdle
    /\ LET r == UploadConfig(Gui, api, named, ok)
       IN  /\ SetGui(r.g)
           /\ ev' = r.steps
    /\ UNCHANGED <<logVars, api, status, timers, acqVars, dev, lastSet>>

reset(answer) ==
    /\ UiIdle
    /\ LET r == Reset(Gui, api, answer)
       IN  /\ SetGui(r.g)
           /\ ev' = r.steps
    /\ UNCHANGED <<logVars, api, status, timers, acqVars, dev, lastSet>>

---------------------------------------------------------------------------
(* ApRESTrialBurstFrame: the trial burst.                                   *)
(* radar.trialBurst(callback, wait=False) returns once the instrument took  *)
(* the trigger; the results are awaited and the callback is run on a        *)
(* background thread, concurrently with the interface thread. A disabled    *)
(* ttk.Button does not run its command.                                     *)
(* trial: "Idle" (nothing accepted yet), "Waiting" (accepted, callback not   *)
(* run), "Completed" (callback ran to its end), "ProcessingFailed" (the     *)
(* callback raised, which ends its thread without a report).                *)

\* faulty variant: the button is left enabled
TrialButtonAfterCall_Normal == "normal"

\* the button state doTrialBurst sets after the call returned
TrialButtonAfterCall == "disabled"

\* doTrialBurst up to the return of radar.trialBurst
doTrialBurst(accepted) ==
    /\ UiIdle
    /\ trialButton = "normal"
    /\ IF IsNone(api)
       THEN /\ ev' = <<"showwarning:Not connected">>
            /\ UNCHANGED <<trialButton, uiPc, trial>>
       ELSE IF accepted
       THEN /\ trial' = "Waiting"
            /\ uiPc' = "doTrialBurst"
            /\ ev' = <<"radar.trialBurst">>
            /\ UNCHANGED trialButton
       ELSE /\ trialButton' = "normal"
            /\ ev' = <<"radar.trialBurst", "showerror">>
            /\ UNCHANGED <<uiPc, trial>>
    /\ UNCHANGED <<logVars, cfgVars, sysVars, singleButton, burst, fileView, dev, lastSet>>

\* doTrialBurst after the call returned: the button is disabled
doTrialBurstReturn ==
    /\ uiPc = "doTrialBurst"
    /\ trialButton' = TrialButtonAfterCall
    /\ uiPc' = "idle"
    /\ UNCHANGED <<logVars, cfgVars, sysVars, singleButton, trial, burst, fileView, dev,
                   lastSet, ev>>

\* updateBurstGraphs(results) on the background thread: the button is set back
\* to normal by its last statement, which a failure of the processing skips
UpdateBurstGraphs(btn, procOk) ==
    IF procOk
    THEN [trialButton |-> "normal", trial |-> "Completed",
          steps |-> <<"trial.results", "draw", "button.normal">>]
    ELSE [trialButton |-> btn, trial |-> "ProcessingFailed",
          steps |-> <<"trial.results", "raise">>]

updateBurstGraphs(procOk) ==
    /\ trial = "Waiting"
    /\ LET r == UpdateBurstGraphs(trialButton, procOk)
       IN  /\ trialButton' = r.trialButton
           /\ trial' = r.trial
           /\ ev' = r.steps
    /\ UNCHANGED <<logVars, cfgVars, sysVars, singleButton, uiPc, burst, fileView, dev, lastSet>>

---------------------------------------------------------------------------
(* ApRESSingleBurstFrame: the single (persisted) burst and the file view.   *)
(* burst: "Idle", "Waiting", "Completed" (downloaded, listed, loaded),       *)
(* "NotFound" (the download answered file-not-found, reported),             *)
(* "LoadFailed" (downloaded and listed, load_data raised), "DownloadFailed" *)
(* (the download raised another exception), "NoSession" (getAPI() was None  *)
(* when the callback ran); the last three end the thread without a report.  *)

FileNotFoundReport == "showerror:File not found.  Check you have installed an SD card?"

\* faulty variant: the new row goes last, as with tk.END
InsertFirst_Last(rows, name) == Append(rows, name)

\* fileView.insert("", 0, values): the new row goes first
InsertFirst(rows, name) == <<name>> \o rows

\* faulty variant: the button is disabled only after the call, and only on failure
DoBurst_NotDisabled(a, accepted) ==
    IF IsNone(a)
    THEN [singleButton |-> "normal", started |-> FALSE,
          steps |-> <<"showwarning:Not connected">>]
    ELSE IF accepted
    THEN [singleButton |-> "normal", started |-> TRUE, steps |-> <<"radar.burst">>]
    ELSE [singleButton |-> "disabled", started |-> FALSE,
          steps |-> <<"radar.burst", "showerror">>]

DoBurst(a, accepted) ==
    IF IsNone(a)
    THEN [singleButton |-> "normal", started |-> FALSE,
          steps |-> <<"showwarning:Not connected">>]
    ELSE IF accepted
    THEN [singleButton |-> "disabled", started |-> TRUE, steps |-> <<"radar.burst">>]
    ELSE [singleButton |-> "normal", started |-> FALSE,
          steps |-> <<"radar.burst", "showerror">>]

do_burst(accepted) ==
    /\ UiIdle
    /\ singleButton = "normal"
    /\ Len(fileView) < MaxCatalog
    /\ LET r == DoBurst(api, accepted)
       IN  /\ singleButton' = r.singleButton
           /\ burst' = IF r.started THEN "Waiting" ELSE burst
           /\ ev' = r.steps
    /\ UNCHANGED <<logVars, cfgVars, sysVars, trialButton, uiPc, trial, fileView, dev, lastSet>>

\* save_latest_burst(results) on the background thread. download is the outcome
\* of data.download: "ok", "notfound" (NotFoundException) or "error" (any other
\* exception, which the handler does not catch).
\* faulty variant: NotFoundException handled like any other exception
NotFoundHandler_Uncaught(rows, btn) ==
    [fileView |-> rows, singleButton |-> btn, burst |-> "DownloadFailed",
     steps |-> <<"data.download", "raise">>]

\* the except NotFoundException clause
NotFoundHandler(rows, btn) ==
    [fileView |-> rows, singleButton |-> "normal", burst |-> "NotFound",
     steps |-> <<"data.download", FileNotFoundReport, "button.normal">>]

SaveLatestBurst(a, rows, btn, download, name, loadOk) ==
    IF IsNone(a)
    THEN [fileView |-> rows, singleButton |-> btn, burst |-> "NoSession",
          steps |-> <<"raise">>]
    ELSE IF download = "notfound"
    THEN NotFoundHandler(rows, btn)
    ELSE IF download = "error"
    THEN [fileView |-> rows, singleButton |-> btn, burst |-> "DownloadFailed",
          steps |-> <<"data.download", "raise">>]
    ELSE [fileView |-> InsertFirst(rows, name), singleButton |-> "normal",
          burst |-> IF loadOk THEN "Completed" ELSE "LoadFailed",
          steps |-> <<"data.download", "fileView.insert", "button.normal", "load_data">>
                    \o (IF loadOk THEN <<"draw">> ELSE <<"raise">>)]

save_latest_burst(download, name, loadOk) ==
    /\ burst = "Waiting"
    /\ LET r == SaveLatestBurst(api, fileView, singleButton, download, name, loadOk)
       IN  /\ fileView' = r.fileView
           /\ singleButton' = r.singleButton
           /\ burst' = r.burst
           /\ ev' = r.steps
    /\ UNCHANGED <<logVars, cfgVars, sysVars, trialButton, uiPc, trial, dev, lastSet>>

---------------------------------------------------------------------------
(* ApRESSingleBurstFrame.update_file_tree. A directory entry is              *)
(* [name, ext, isFile, mtime]: ext is os.path.splitext(name)[1], isFile      *)
(* what Path.is_file() answers, mtime what stat().st_mtime answers. listing  *)
(* is os.listdir(path), in the order the system gives it.                    *)

\* str.lower() on the extensions of the model
Lower(ext) == IF ext = ".DAT" THEN ".dat" ELSE ext

\* faulty variant: a sub-directory passes
IsBurstFile_AnyKind(e) == Lower(e.ext) = ".dat"

\* the test of the listing loop
IsBurstFile(e) == e.isFile /\ Lower(e.ext) = ".dat"

\* filenames (with file_dates) as the loop appends them, in listing order
RECURSIVE Filenames(_)
Filenames(listing) ==
    IF listing = <<>> THEN <<>>
    ELSE (IF IsBurstFile(Head(listing)) THEN <<Head(listing)>> ELSE <<>>)
         \o Filenames(Tail(listing))

\* np.argsort(file_dates): the orders of the indices by ascending date; the
\* order among equal dates is whatever the sort leaves
ArgSorts(files) ==
    {p \in [1..Len(files) -> 1..Len(files)] :
        /\ \A i, j \in 1..Len(files) : i # j => p[i] # p[j]
        /\ \A i \in 1..(Len(files) - 1) : files[p[i]].mtime <= files[p[i + 1]].mtime}

\* for k in reversed(sort_idx): fileView.insert("", tk.END, name)
RowsOf(files, p) == [i \in 1..Len(files) |-> files[p[Len(files) + 1 - i]].name]

\* the rows update_file_tree may leave for a path that is or is not a directory
UpdateFileTree(isDir, listing) ==
    IF ~isDir THEN {<<>>}
    ELSE {RowsOf(Filenames(listing), p) : p \in ArgSorts(Filenames(listing))}

update_file_tree(isDir, listing) ==
    /\ UiIdle
    /\ fileView' \in UpdateFileTree(isDir, listing)
    /\ ev' = <<"update_file_tree">>
    /\ UNCHANGED <<logVars, cfgVars, sysVars, trialButton, singleButton, uiPc, trial,
                   burst, dev, lastSet>>

---------------------------------------------------------------------------
(* The configuration editor against the instrument: SpecConfig *)

\* what the instrument may hold when the console starts
DeviceConfigs ==
    { [nAverages |-> 1, nSubBursts |-> 1, nAttenuators |-> 1,
       rfAttn |-> <<30>>, afGain |-> <<-14>>,
       txAntenna |-> DefaultMask, rxAntenna |-> DefaultMask],
      [nAverages |-> 2, nSubBursts |-> 1, nAttenuators |-> 3,
       rfAttn |-> <<10, 20, 5>>, afGain |-> <<-4, 6, -4>>,
       txAntenna |-> DefaultMask, rxAntenna |-> <<0, 1, 0, 0, 0, 0, 0, 0>>] }

Volts == {12}
TypedCounts == {0, 5}
TypedRf == {0}
TypedAf == {6}
Slots == 0..(NSlots - 1)
RfTypedSlots == {2}
AfTypedSlots == {1}

InitConfig == \E d \in DeviceConfigs : InitWith(d)

NextConfig ==
    \/ \E apiOk \in BOOLEAN, getOk \in BOOLEAN :
          connectToRadar(apiOk, FALSE, 0, getOk)
    \/ \E getOk \in BOOLEAN : refreshConfig(getOk)
    \/ \E setOk \in BOOLEAN, getOk \in BOOLEAN : updateConfig(setOk, getOk)
    \/ \E up \in BOOLEAN : updateAttenuators(up)
    \/ \E v \in TypedCounts : TypeAttenuators(v)
    \/ \E n \in RfTypedSlots, v \in TypedRf : TypeRfAttn(n, v)
    \/ \E n \in AfTypedSlots, v \in TypedAf : TypeAfGain(n, v)

SpecConfig == InitConfig /\ [][NextConfig]_vars

---------------------------------------------------------------------------
(* The antenna masks: SpecMask. The instrument may hold any mask, the       *)
(* all-zero one included.                                                   *)

Antennas == 0..(NAntennas - 1)
OneHot(i) == [k \in 1..NAntennas |-> IF k = i + 1 THEN 1 ELSE 0]

MaskDeviceConfigs ==
    { [nAverages |-> 1, nSubBursts |-> 1, nAttenuators |-> 1,
       rfAttn |-> <<30>>, afGain |-> <<-14>>,
       txAntenna |-> m[1], rxAntenna |-> m[2]] :
      m \in {<<ZeroMask, OneHot(1)>>, <<OneHot(2), OneHot(0)>>} }

RxClicked == {0, 1}

InitMask == \E d \in MaskDeviceConfigs : InitWith(d)

NextMask ==
    \/ \E getOk \in BOOLEAN : connectToRadar(TRUE, FALSE, 0, getOk)
    \/ \E getOk \in BOOLEAN : refreshConfig(getOk)
    \/ \E i \in Antennas : ToggleTx(i)
    \/ \E i \in RxClicked : ToggleRx(i)

SpecMask == InitMask /\ [][NextMask]_vars

---------------------------------------------------------------------------
(* The acquisition workflows: SpecBurst *)

BurstDeviceConfig ==
    [nAverages |-> 1, nSubBursts |-> 1, nAttenuators |-> 1,
     rfAttn |-> <<30>>, afGain |-> <<-14>>,
     txAntenna |-> DefaultMask, rxAntenna |-> DefaultMask]

Files == {"burst_0001.dat", "burst_0002.dat"}
Downloads == {"ok", "notfound", "error"}

InitBurst == InitWith(BurstDeviceConfig)

NextBurst ==
    \/ \E apiOk \in BOOLEAN, statusOk \in BOOLEAN, v \in Volts :
          connectToRadar(apiOk, statusOk, v, TRUE)
    \/ \E statusOk \in BOOLEAN, v \in Volts : updateStatus(statusOk, v)
    \/ \E accepted \in BOOLEAN : doTrialBurst(accepted)
    \/ doTrialBurstReturn
    \/ \E procOk \in BOOLEAN : updateBurstGraphs(procOk)
    \/ \E accepted \in BOOLEAN : do_burst(accepted)
    \/ \E d \in Downloads, f \in Files, loadOk \in BOOLEAN : save_latest_burst(d, f, loadOk)

SpecBurst == InitBurst /\ [][NextBurst]_vars

---------------------------------------------------------------------------
(* The battery-voltage history: SpecBattery. The log timer and the status   *)
(* polls run on the interface thread, each on its own after() chain.        *)

InitBattery == InitWith(BurstDeviceConfig)

NextBattery ==
    \/ \E v \in Volts : connectToRadar(TRUE, TRUE, v, TRUE)
    \/ \E v \in Volts : updateStatus(TRUE, v)
    \/ batteryLogUpdate

SpecBattery == InitBattery /\ [][NextBattery]_vars

---------------------------------------------------------------------------
(* The session: SpecSession. Connecting, the status polls and every handler *)
(* that needs a session, with and without one; the instrument rejects the   *)
(* burst triggers here, so that no callback is pending.                     *)

ResetAnswers == {"message", "none", "error"}

InitSession == InitWith(BurstDeviceConfig)

NextSession ==
    \/ \E apiOk \in BOOLEAN, statusOk \in BOOLEAN, v \in Volts, getOk \in BOOLEAN :
          connectToRadar(apiOk, statusOk, v, getOk)
    \/ \E statusOk \in BOOLEAN, v \in Volts : updateStatus(statusOk, v)
    \/ \E getOk \in BOOLEAN : refreshConfig(getOk)
    \/ \E setOk \in BOOLEAN, getOk \in BOOLEAN : updateConfig(setOk, getOk)
    \/ \E named \in BOOLEAN, ok \in BOOLEAN : downloadConfig(named, ok)
    \/ \E named \in BOOLEAN, ok \in BOOLEAN : uploadConfig(named, ok)
    \/ \E answer \in ResetAnswers : reset(answer)
    \/ doTrialBurst(FALSE)
    \/ do_burst(FALSE)

SpecSession == InitSession /\ [][NextSession]_vars

---------------------------------------------------------------------------
(* Growing the attenuator count: SpecApply. The instrument starts with one  *)
(* attenuator; the operator moves the spinbox and types a value of its own  *)
(* into each of the first three RF slots.                                   *)

\* the value the operator types into RF slot n (counted from 0)
ApplyTypedRf == <<5, 10, 20>>
ApplySlots == 0..(Len(ApplyTypedRf) - 1)

InitApply == InitWith(BurstDeviceConfig)

NextApply ==
    \/ \E getOk \in BOOLEAN : connectToRadar(TRUE, FALSE, 0, getOk)
    \/ \E up \in BOOLEAN : updateAttenuators(up)
    \/ \E n \in ApplySlots : TypeRfAttn(n, ApplyTypedRf[n + 1])
    \/ \E setOk \in BOOLEAN, getOk \in BOOLEAN : updateConfig(setOk, getOk)

SpecApply == InitApply /\ [][NextApply]_vars

---------------------------------------------------------------------------
(* The catalog: SpecCatalog. The survey directory may hold burst files, two *)
(* of them of the same date, one with its extension in capitals, a file of  *)
(* another kind and a sub-directory named like a burst file.                *)

DirEntries ==
    << [name |-> "burst_0001.dat", ext |-> ".dat", isFile |-> TRUE, mtime |-> 1],
       [name |-> "notes.txt", ext |-> ".txt", isFile |-> TRUE, mtime |-> 3],
       [name |-> "burst_0002.dat", ext |-> ".dat", isFile |-> TRUE, mtime |-> 2],
       [name |-> "archive.dat", ext |-> ".dat", isFile |-> FALSE, mtime |-> 3],
       [name |-> "burst_0003.DAT", ext |-> ".DAT", isFile |-> TRUE, mtime |-> 2] >>

\* the entries of s at the positions of P, in the order of s
RECURSIVE Pick(_, _, _)
Pick(s, P, k) ==
    IF k > Len(s) THEN <<>>
    ELSE (IF k \in P THEN <<s[k]>> ELSE <<>>) \o Pick(s, P, k + 1)

Reversed(s) == [k \in 1..Len(s) |-> s[Len(s) + 1 - k]]

\* what os.listdir may answer: any part of the entries, in one order or in the
\* opposite one
Listings ==
    UNION { {Pick(DirEntries, P, 1), Reversed(Pick(DirEntries, P, 1))} :
            P \in SUBSET (1..Len(DirEntries)) }

InitCatalog == InitWith(BurstDeviceConfig)

NextCatalog ==
    \/ \E isDir \in BOOLEAN, listing \in Listings : update_file_tree(isDir, listing)
    \/ connectToRadar(TRUE, FALSE, 0, TRUE)
    \/ \E accepted \in BOOLEAN : do_burst(accepted)
    \/ \E d \in Downloads, f \in Files, loadOk \in BOOLEAN : save_latest_burst(d, f, loadOk)

SpecCatalog == InitCatalog /\ [][NextCatalog]_vars

---------------------------------------------------------------------------
(* Claims *)

\* C1: every candidate updateConfig sends to the instrument with an attenuator
\* count in 1..4 carries exactly that many RF attenuations and AF gains.
C1_CandidateLengths ==
    (~IsNone(lastSet) /\ The(lastSet).nAtts \in AttenuatorsFrom..AttenuatorsTo) =>
        /\ Len(The(lastSet).rfAttnSet) = The(lastSet).nAtts
        /\ Len(The(lastSet).afGainSet) = The(lastSet).nAtts

\* C1 witness: updateConfig has just sent a candidate of 4 attenuators, a count
\* no instrument configuration of the model starts with, after a refresh.
C1_Witness ==
    /\ Len(ev) > 0 /\ ev[1] = "radar.config.set"
    /\ ~IsNone(config)
    /\ The(lastSet).nAtts = 4
    /\ Len(The(lastSet).rfAttnSet) = 4

\* C2: in every reachable state each antenna mask has at least one flag set.
C2_MaskNeverZero == SumSeq(txMask) >= 1 /\ SumSeq(rxMask) >= 1

Has(steps, x) == \E k \in 1..Len(steps) : steps[k] = x
\* the position of the first x in steps (0: none)
Pos(steps, x) ==
    IF Has(steps, x) THEN Min({k \in 1..Len(steps) : steps[k] = x}) ELSE 0

\* a doTrialBurst / do_burst step that sends a trigger to the instrument
TrialTriggerSent == ~IsNone(api) /\ \E accepted \in BOOLEAN : doTrialBurst(accepted)
BurstTriggerSent == ~IsNone(api) /\ \E accepted \in BOOLEAN : do_burst(accepted)

\* C4: from the acceptance of a trial trigger until updateBurstGraphs has run,
\* no doTrialBurst sends a second radar.trialBurst: the interface thread is
\* still inside doTrialBurst, or the trigger button is disabled.
C4_NoSecondTrial ==
    /\ [][trial = "Waiting" => ~TrialTriggerSent]_vars
    /\ [](trial = "Waiting" => (uiPc = "doTrialBurst" \/ trialButton = "disabled"))

\* C4 witness: a trial burst is waiting, doTrialBurst has returned and the
\* session is live, so that only the button keeps a second trigger away.
C4_Witness ==
    /\ trial = "Waiting" /\ uiPc = "idle" /\ trialButton = "disabled"
    /\ ~IsNone(api)

\* C5: every accepted trigger is resolved, by its callback running to the end
\* or by an error reported to the operator: no workflow ends with its thread
\* gone before the end of the callback and nothing reported.
C5_EveryTriggerResolved ==
    /\ trial # "ProcessingFailed"
    /\ burst \notin {"DownloadFailed", "NoSession"}

\* C6: when data.download answers file-not-found in save_latest_burst, the
\* operator gets the file-not-found report, no row is inserted in the file view
\* and the single-burst button is normal again.
C6_NotFoundReported ==
    [][\A f \in Files, l \in BOOLEAN :
          (~IsNone(api) /\ save_latest_burst("notfound", f, l)) =>
              /\ Has(ev', FileNotFoundReport)
              /\ ~Has(ev', "showerror")
              /\ fileView' = fileView
              /\ singleButton' = "normal"]_vars

\* C6 witness: a download has just answered file-not-found, after an earlier
\* burst was downloaded and listed.
C6_Witness ==
    /\ burst = "NotFound" /\ Has(ev, FileNotFoundReport)
    /\ Len(fileView) = 1 /\ singleButton = "normal"

\* C7: after any acquisition failure the trigger of the failed workflow is
\* enabled again: a rejected trigger, a download that failed with any error,
\* a failure of the processing in updateBurstGraphs or load_data.
C7_FailureReenables ==
    /\ (burst \in {"NotFound", "DownloadFailed", "LoadFailed"}) => singleButton = "normal"
    /\ (trial = "ProcessingFailed" /\ uiPc = "idle") => trialButton = "normal"
    /\ ev = <<"radar.burst", "showerror">> => singleButton = "normal"
    /\ ev = <<"radar.trialBurst", "showerror">> => trialButton = "normal"

\* C8: a single burst whose callback finds the session gone (application.api
\* None after a failed connectToRadar) is still resolved: the failure is
\* reported and the button is normal again.
C8_TeardownResolved ==
    burst = "NoSession" => (singleButton = "normal" /\ Has(ev, "showerror"))

\* C9 as claimed: while a trial burst is waiting no do_burst sends a trigger,
\* and while a single burst is waiting no doTrialBurst sends one.
C9_OneInFlight ==
    [][/\ trial = "Waiting" => ~BurstTriggerSent
       /\ burst = "Waiting" => ~TrialTriggerSent]_vars

\* C9 amended: at most one acquisition of each kind is in flight: while a trial
\* burst is waiting no doTrialBurst sends a trigger, and while a single burst is
\* waiting no do_burst sends one; the two kinds are not serialised.
C9_OneInFlightPerKind ==
    [][/\ trial = "Waiting" => ~TrialTriggerSent
       /\ burst = "Waiting" => ~BurstTriggerSent]_vars

\* C9 witness: a trial burst and a single burst are waiting at once, both
\* buttons disabled.
C9_Witness ==
    /\ trial = "Waiting" /\ burst = "Waiting"
    /\ trialButton = "disabled" /\ singleButton = "disabled"

\* C10: when the download of a single burst succeeds, save_latest_burst
\* downloads before it re-enables the button and loads the data, the file view
\* gets the file as its first row above the earlier rows in their order, and
\* update_file_tree is not run.
C10_DownloadedFileFirst ==
    [][\A f \in Files, l \in BOOLEAN :
          (~IsNone(api) /\ save_latest_burst("ok", f, l)) =>
              /\ fileView' = <<f>> \o fileView
              /\ Pos(ev', "data.download") = 1
              /\ Pos(ev', "data.download") < Pos(ev', "button.normal")
              /\ Pos(ev', "data.download") < Pos(ev', "load_data")
              /\ ~Has(ev', "update_file_tree")]_vars

\* C10 witness: a second burst has just been downloaded, listed and loaded; its
\* file is the first row and the earlier file the second.
C10_Witness ==
    /\ burst = "Completed" /\ Has(ev, "fileView.insert")
    /\ fileView = <<"burst_0002.dat", "burst_0001.dat">>

\* C11: the battery log always holds exactly BATTERY_LOG_SIZE samples: the
\* latest BATTERY_LOG_SIZE of the zeros it starts with followed by every sample
\* batteryLogUpdate stored, in the order they were stored, the newest last.
C11_LogIsFifo ==
    /\ Len(batteryLog) = BATTERY_LOG_SIZE
    /\ LET all == Zeros(BATTERY_LOG_SIZE) \o pushed
       IN  batteryLog = SubSeq(all, Len(all) - BATTERY_LOG_SIZE + 1, Len(all))

\* C11 witness: BATTERY_LOG_SIZE + 1 samples were stored, the first of them the
\* 0 V of the constructor and every later one a polled 12 V; the log holds the
\* later ones only.
C11_Witness ==
    /\ Len(pushed) = BATTERY_LOG_SIZE + 1
    /\ pushed[1] = 0
    /\ \A k \in 2..Len(pushed) : pushed[k] = 12
    /\ batteryLog = [k \in 1..BATTERY_LOG_SIZE |-> 12]

\* a step in which a status poll succeeded, on its timer or inside a connect
PollSucceeded ==
    \/ \E v \in Volts : updateStatus(TRUE, v)
    \/ \E v \in Volts, getOk \in BOOLEAN : connectToRadar(TRUE, TRUE, v, getOk)

\* C12: a sample enters the battery log only in a step in which a status poll
\* succeeded, and every such step stores exactly one sample.
C12_SampleOnlyOnPoll ==
    [][/\ pushed' # pushed => PollSucceeded
       /\ PollSucceeded => Len(pushed') = Len(pushed) + 1]_vars

\* C13: at most one status poll is pending at any time.
C13_SinglePoll == timers <= 1

\* C14: when a poll on its timer fails while a session exists, the failure is
\* reported, the frame is marked red and a poll is pending again afterwards.
C14_FailedPollRescheduled ==
    [][\A v \in Volts :
          (~IsNone(api) /\ updateStatus(FALSE, v)) =>
              /\ Has(ev', "showerror")
              /\ bg' = "red"
              /\ timers' >= 1]_vars

\* C15: a connect attempt in which the construction of the session raised, or
\* in which both reads against the instrument failed, ends with no session and
\* the frame not green.
C15_FailedConnectNoSession ==
    [][\A apiOk \in BOOLEAN, v \in Volts :
          connectToRadar(apiOk, FALSE, v, FALSE) =>
              (IsNone(api') /\ bg' # "green")]_vars

\* how many times a handler issued the request or report x
Count(steps, x) == Cardinality({k \in 1..Len(steps) : steps[k] = x})

\* C16: a connectToRadar whose session was constructed reads the status once
\* and then the configuration once, reports the failure of either read right
\* after it, and ends with the new session in place.
C16_ConnectFollowUps ==
    [][\A statusOk \in BOOLEAN, v \in Volts, getOk \in BOOLEAN :
          connectToRadar(TRUE, statusOk, v, getOk) =>
              /\ ~IsNone(api')
              /\ Count(ev', "housekeeping.status") = 1
              /\ Count(ev', "radar.config.get") = 1
              /\ Pos(ev', "housekeeping.status") = 1
              /\ Pos(ev', "radar.config.get") = (IF statusOk THEN 2 ELSE 3)
              /\ statusOk <=> (ev'[2] # "showerror")
              /\ getOk <=> (ev'[Len(ev')] # "showerror")]_vars

\* C16 witness: a connect has just constructed a session and both follow-ups
\* failed and were reported; the session is in place.
C16_Witness ==
    /\ ev = <<"housekeeping.status", "showerror", "radar.config.get", "showerror">>
    /\ ~IsNone(api)
    /\ bg = "green"

\* the reports that tell the operator there is no session, and the requests
\* the console sends to the instrument
NotConnectedReports ==
    {"showwarning:Not connected.", "showwarning:Not connected", NotConnectedLabel}
Requests ==
    {"housekeeping.status", "radar.config.get", "radar.config.set", "config.download",
     "config.upload", "system.reset", "radar.trialBurst", "radar.burst", "data.download"}

\* a step of one of the handlers that need a session
DeviceBoundOperation ==
    \/ \E named \in BOOLEAN, ok \in BOOLEAN : downloadConfig(named, ok)
    \/ \E named \in BOOLEAN, ok \in BOOLEAN : uploadConfig(named, ok)
    \/ \E answer \in ResetAnswers : reset(answer)
    \/ \E getOk \in BOOLEAN : refreshConfig(getOk)
    \/ \E setOk \in BOOLEAN, getOk \in BOOLEAN : updateConfig(setOk, getOk)
    \/ \E accepted \in BOOLEAN : doTrialBurst(accepted)
    \/ \E accepted \in BOOLEAN : do_burst(accepted)

\* C17: each of downloadConfig, uploadConfig, reset, refreshConfig,
\* updateConfig, doTrialBurst and do_burst, run without a session, shows a
\* not-connected report, sends no request and leaves the instrument and the
\* session as they were.
C17_NotConnectedReported ==
    [][(IsNone(api) /\ DeviceBoundOperation) =>
          /\ \E k \in 1..Len(ev') : ev'[k] \in NotConnectedReports
          /\ \A k \in 1..Len(ev') : ev'[k] \notin Requests
          /\ dev' = dev /\ lastSet' = lastSet /\ IsNone(api')]_vars

\* C17 witness: Reset, Download or Upload has just run after a connect attempt
\* failed and left no session; the label and the red frame report it.
C17_Witness ==
    /\ IsNone(api)
    /\ ev = <<NotConnectedLabel>>
    /\ statusLabel = ErrConnecting /\ bg = "red"
    /\ ~IsNone(config)

\* the configuration invariants: the ranges the editor's spinboxes are built
\* with (RF attenuation 0 to 31.75 dB, AF gain one of -14, -4, 6)
AfGains == {-14, -4, 6}
RfInRange(v) == v >= 0 /\ 4 * v <= 127
ValidCandidate(c) ==
    /\ c.nAtts \in AttenuatorsFrom..AttenuatorsTo
    /\ c.nAverages >= 1
    /\ c.nBursts >= 1
    /\ \A k \in 1..Len(c.rfAttnSet) : RfInRange(c.rfAttnSet[k])
    /\ \A k \in 1..Len(c.afGainSet) : c.afGainSet[k] \in AfGains
    /\ SumSeq(c.txAnt) >= 1
    /\ SumSeq(c.rxAnt) >= 1

\* what the editor holds breaks a configuration invariant
EditorInvalid ==
    \/ attenuatorsVar \notin AttenuatorsFrom..AttenuatorsTo
    \/ ~ValidCandidate(Candidate(Gui))

\* C18: an updateConfig run with a session on an editor that breaks a
\* configuration invariant reports an error and does not call radar.config.set.
C18_ValidatedBeforeSet ==
    [][\A setOk \in BOOLEAN, getOk \in BOOLEAN :
          (~IsNone(api) /\ EditorInvalid /\ updateConfig(setOk, getOk)) =>
              /\ ~Has(ev', "radar.config.set")
              /\ Has(ev', "showerror")
              /\ lastSet' = lastSet]_vars

\* C19: a change of the attenuator count by the spinbox leaves every RF and AF
\* slot with the value it held before.
C19_ResizeKeepsSlots ==
    [][\A up \in BOOLEAN :
          updateAttenuators(up) =>
              (rfAttnVars' = rfAttnVars /\ afGainVars' = afGainVars)]_vars

\* the latest handler ended with a successful read of the configuration, and
\* nothing was typed or clicked since
JustRefreshed == Len(ev) > 0 /\ ev[Len(ev)] = "radar.config.get"

\* C20: an updateConfig run right after a successful refresh sends what the
\* refresh read: the candidate is the instrument's configuration, field by
\* field, and the instrument holds the same configuration afterwards.
C20_RoundTrip ==
    [][\A setOk \in BOOLEAN, getOk \in BOOLEAN :
          (~IsNone(api) /\ JustRefreshed /\ updateConfig(setOk, getOk)) =>
              /\ Has(ev', "radar.config.set")
              /\ ~IsNone(lastSet')
              /\ Stored(The(lastSet')) = dev
              /\ dev' = dev]_vars

\* C20 witness: right after a refresh of the 3-attenuator configuration,
\* updateConfig has sent a candidate equal to it and read it back.
C20_Witness ==
    /\ ev = <<"radar.config.set", "radar.config.get">>
    /\ dev.nAttenuators = 3
    /\ dev.rfAttn = <<10, 20, 5>>
    /\ ~IsNone(lastSet) /\ Stored(The(lastSet)) = dev
    /\ config = Some(dev)

\* C21: with a session whose fetched configuration has one attenuator, an
\* updateConfig run with the count at 3 and three distinct values in RF slots
\* 0..2, which the instrument takes and returns, sends the three values in slot
\* order and leaves the editor with a count of 3 and the same values in the
\* same slots.
C21_GrowToThree ==
    [][(/\ ~IsNone(api)
        /\ ~IsNone(config) /\ The(config).nAttenuators = 1
        /\ attenuatorsVar = 3
        /\ Cardinality({rfAttnVars[k] : k \in 1..3}) = 3
        /\ updateConfig(TRUE, TRUE)) =>
           /\ The(lastSet').nAtts = 3
           /\ The(lastSet').rfAttnSet = SubSeq(rfAttnVars, 1, 3)
           /\ attenuatorsVar' = 3
           /\ The(config').nAttenuators = 3
           /\ SubSeq(rfAttnVars', 1, 3) = SubSeq(rfAttnVars, 1, 3)
           /\ rfVisible' = 3]_vars

\* C21 witness: the instrument started with one attenuator and 30 dB; the
\* editor has just sent 5, 10, 20 and read them back into slots 0..2.
C21_Witness ==
    /\ ev = <<"radar.config.set", "radar.config.get">>
    /\ The(lastSet).rfAttnSet = <<5, 10, 20>>
    /\ attenuatorsVar = 3
    /\ SubSeq(rfAttnVars, 1, 3) = <<5, 10, 20>>
    /\ dev.rfAttn = <<5, 10, 20>>

\* C22: a radar.config.set is issued only after a configuration read has
\* succeeded: updateConfig sends no write while BurstConfigFrame.config, which
\* only a successful read or write fills, is still None.
C22_ReadBeforeWrite ==
    [][\A setOk \in BOOLEAN, getOk \in BOOLEAN :
          (updateConfig(setOk, getOk) /\ Has(ev', "radar.config.set")) =>
              ~IsNone(config)]_vars

\* the entry of a listing that a row names
EntryNamed(listing, name) ==
    CHOOSE e \in {listing[k] : k \in 1..Len(listing)} : e.name = name

\* C23: update_file_tree on a directory leaves as rows exactly the names of
\* the listed regular files whose extension is .dat in any case, each once and
\* no row of before kept, the newer file never below the older; a file of
\* another extension or a sub-directory is no row.
C23_CatalogRefresh ==
    [][\A listing \in Listings :
          update_file_tree(TRUE, listing) =>
              LET entries == {listing[k] : k \in 1..Len(listing)}
                  wanted == {e.name : e \in
                               {x \in entries : x.isFile /\ x.ext \in {".dat", ".DAT"}}}
              IN  /\ {fileView'[k] : k \in 1..Len(fileView')} = wanted
                  /\ Len(fileView') = Cardinality(wanted)
                  /\ \A i \in 1..(Len(fileView') - 1) :
                        EntryNamed(listing, fileView'[i]).mtime
                            >= EntryNamed(listing, fileView'[i + 1]).mtime]_vars

\* C23 witness: the catalog has just been refreshed from a directory with the
\* three burst files; the oldest is the last row, and the one with the
\* extension in capitals is listed.
C23_Witness ==
    /\ ev = <<"update_file_tree">>
    /\ fileView = <<"burst_0003.DAT", "burst_0002.dat", "burst_0001.dat">>

\* C24: once updateBurstGraphs has run to its end and doTrialBurst has
\* returned, so that no trial burst is in flight, the trial trigger button is
\* normal.
C24_ButtonEnabledAfterCallback ==
    (trial = "Completed" /\ uiPc = "idle") => trialButton = "normal"

=============================================================================
